---- MODULE Spec2Model ----
(***************************************************************************)
(* A model of the Template class of lib/string.js (with the predicates of  *)
(* lib/is.js it calls).  A JavaScript string is a sequence of one-         *)
(* character strings; a JavaScript value is a record [t, v] of its type    *)
(* tag and the characters String(value) is built from.                     *)
(***************************************************************************)
EXTENDS Integers, Sequences, FiniteSets, TLC

(***************************************************************************)
(* Bounds of the model.                                                    *)
(***************************************************************************)
\* sources are concatenations of at most MaxPieces pieces (see Pieces)
MaxPieces == 2
\* length of a chain of fork calls
MaxForks == 1
\* the strings given to clean, wrap and the constructor are concatenations of
\* at most MaxParts pieces (see StringPieces)
MaxParts == 3

(***************************************************************************)
(* JavaScript values.                                                      *)
(***************************************************************************)
Undefined == [t |-> "undefined", v |-> <<>>]
Null == [t |-> "null", v |-> <<>>]
Str(s) == [t |-> "string", v |-> s]
\* the number 0, the boolean false
Zero == [t |-> "number", v |-> <<"0">>]
False == [t |-> "boolean", v |-> <<"f", "a", "l", "s", "e">>]
\* Symbol(d), d its description
Sym(d) == [t |-> "symbol", v |-> d]
\* a built-in function, n its name
Fn(n) == [t |-> "function", v |-> n]
\* the bigint 1n, a plain object
OneN == [t |-> "bigint", v |-> <<"1">>]
PlainObject == [t |-> "object", v |-> <<>>]
\* the number n (0 <= n <= 9), as the length of a short string
Num(n) == [t |-> "number", v |-> <<ToString(n)>>]

\* names of inherited properties that the placeholder grammar allows
valueOfName == <<"v", "a", "l", "u", "e", "O", "f">>
toStringName == <<"t", "o", "S", "t", "r", "i", "n", "g">>
lengthName == <<"l", "e", "n", "g", "t", "h">>
atName == <<"a", "t">>
\* function-valued properties of Object.prototype (a selection)
ObjectPrototypeKeys == {valueOfName, toStringName}
\* function-valued properties of String.prototype (a selection)
StringPrototypeKeys == {atName} \cup ObjectPrototypeKeys

\* String(value) for the values above; a native function prints as
\* "function name() { [native code] }"
ToStr(val) ==
  CASE val.t = "undefined" -> <<"u", "n", "d", "e", "f", "i", "n", "e", "d">>
    [] val.t = "null" -> <<"n", "u", "l", "l">>
    [] val.t = "function" ->
         <<"f", "u", "n", "c", "t", "i", "o", "n", " ">> \o val.v
           \o <<"(", ")", " ", "{", " ", "[", "n", "a", "t", "i", "v", "e", " ",
                "c", "o", "d", "e", "]", " ", "}">>
    [] val.t = "symbol" ->
         <<"S", "y", "m", "b", "o", "l", "(">> \o val.v \o <<")">>
    [] OTHER -> val.v

(***************************************************************************)
(* lib/is.js                                                               *)
(***************************************************************************)
\* the result of the typeof operator: "object" for null
typeof(value) == IF value.t = "null" THEN "object" ELSE value.t

PRIMITIVE_TYPES ==
  <<"boolean", "number", "symbol", "undefined", "null", "bigint">>

isPrimitive(value) ==
  LET type == typeof(value)
  IN  \E i \in DOMAIN PRIMITIVE_TYPES : PRIMITIVE_TYPES[i] = type

isDefined(value) == value # Undefined

isUndefined(value) == ~isDefined(value)

isNonNullable(value) == isDefined(value) /\ value # Null

(***************************************************************************)
(* String.prototype methods the code calls (0-based indices, as in JS).    *)
(***************************************************************************)
\* sub occurs in s at index i
OccursAt(s, sub, i) ==
  /\ i >= 0
  /\ i + Len(sub) <= Len(s)
  /\ \A k \in 1..Len(sub) : s[i + k] = sub[k]

\* s.indexOf(sub, from); -1 when there is none
IndexOfFrom(s, sub, from) ==
  LET hits == {i \in from..Len(s) : OccursAt(s, sub, i)}
  IN  IF hits = {} THEN -1 ELSE CHOOSE i \in hits : \A j \in hits : i <= j

IndexOf(s, sub) == IndexOfFrom(s, sub, 0)

Min(a, b) == IF a <= b THEN a ELSE b
Max(a, b) == IF a >= b THEN a ELSE b

\* s.substring(a, b): both clamped to 0..length, swapped when a > b
Substring(s, a, b) ==
  LET ca == Min(Max(a, 0), Len(s))
      cb == Min(Max(b, 0), Len(s))
  IN  SubSeq(s, Min(ca, cb) + 1, Max(ca, cb))

\* GetSubstitution for a string pattern: in the replacement text, dollar
\* dollar is a dollar sign, dollar ampersand the matched text, dollar
\* backquote the text before the match, dollar quote the text after it; any
\* other dollar sign stands for itself
\* the backquote character, which a TLA+ string cannot hold
Backquote == "BACKQUOTE"

RECURSIVE GetSubstitution(_, _, _, _)
GetSubstitution(matched, s, position, replacement) ==
  IF replacement = <<>> THEN <<>>
  ELSE IF Head(replacement) = "$" /\ Len(replacement) >= 2
            /\ replacement[2] \in {"$", "&", Backquote, "'"}
       THEN (CASE replacement[2] = "$" -> <<"$">>
               [] replacement[2] = "&" -> matched
               [] replacement[2] = Backquote -> SubSeq(s, 1, position)
               [] OTHER -> SubSeq(s, position + Len(matched) + 1, Len(s)))
            \o GetSubstitution(matched, s, position,
                               SubSeq(replacement, 3, Len(replacement)))
       ELSE <<Head(replacement)>>
            \o GetSubstitution(matched, s, position, Tail(replacement))

\* s.replace(search, replacement) with a string pattern: the first occurrence
Replace(s, search, replacement) ==
  LET p == IndexOf(s, search)
  IN  IF p < 0 THEN s
      ELSE SubSeq(s, 1, p) \o GetSubstitution(search, s, p, replacement)
             \o SubSeq(s, p + Len(search) + 1, Len(s))

\* s.replaceAll(search, replacement) with a non-empty string pattern: the
\* occurrences are found left to right in s, without overlap
RECURSIVE ReplaceAllFrom(_, _, _, _)
ReplaceAllFrom(s, search, replacement, from) ==
  LET p == IndexOfFrom(s, search, from)
  IN  IF p < 0 THEN SubSeq(s, from + 1, Len(s))
      ELSE SubSeq(s, from + 1, p) \o GetSubstitution(search, s, p, replacement)
             \o ReplaceAllFrom(s, search, replacement, p + Len(search))

ReplaceAll(s, search, replacement) == ReplaceAllFrom(s, search, replacement, 0)

(***************************************************************************)
(* Property lookup, obj[key].  An object value is [kind, own, str]: a      *)
(* plain object with the own properties own (a function from names to      *)
(* values), or a string primitive str.  A name that is no own property is  *)
(* looked up in the prototype.                                             *)
(***************************************************************************)
Obj(own) == [kind |-> "object", own |-> own, str |-> <<>>]
StrObj(s) == [kind |-> "string", own |-> <<>>, str |-> s]
\* the object literal {}
EmptyObject == Obj(<<>>)
\* an argument that is not passed
NoArgument == [kind |-> "undefined", own |-> <<>>, str |-> <<>>]

Digits == <<"0", "1", "2", "3", "4", "5", "6", "7", "8", "9">>

\* key is the index of a character of str (strings of the model are shorter
\* than 10 characters where this is used, so an index is one digit)
IsIndexOf(key, str) ==
  /\ Len(key) = 1
  /\ \E d \in 1..Len(str) : d <= 10 /\ Digits[d] = key[1]

IndexValue(key) == (CHOOSE d \in 1..10 : Digits[d] = key[1]) - 1

GetProperty(obj, key) ==
  IF obj.kind = "string"
  THEN IF IsIndexOf(key, obj.str) THEN Str(<<obj.str[IndexValue(key) + 1]>>)
       ELSE IF key = lengthName THEN Num(Len(obj.str))
       ELSE IF key \in StringPrototypeKeys THEN Fn(key)
       ELSE Undefined
  ELSE IF key \in DOMAIN obj.own THEN obj.own[key]
       ELSE IF key \in ObjectPrototypeKeys THEN Fn(key)
       ELSE Undefined

(***************************************************************************)
(* lib/string.js: wrap, unwrap                                             *)
(***************************************************************************)
wrap(value, start, end) == start \o value \o end

unwrap(value, start, end) ==
  LET i1 == IndexOf(value, start) + Len(start)
      i2 == IndexOf(value, end)
  IN  Substring(value, i1, i2)

\* clean without the recursive call: the two replaceAll calls, once
clean_Once(value) ==
  ReplaceAll(ReplaceAll(value, <<"\n">>, <<" ">>), <<" ", " ">>, <<" ">>)

RECURSIVE clean(_)
clean(value) ==
  LET cleaned ==
        ReplaceAll(ReplaceAll(value, <<"\n">>, <<" ">>), <<" ", " ">>, <<" ">>)
  IN  IF IndexOf(cleaned, <<" ", " ">>) >= 0 THEN clean(cleaned) ELSE cleaned

(***************************************************************************)
(* Template.getPlaceholderPattern: the regular expression                  *)
(*   (?<![S|s])S[A-Za-z0-9-_]+?E(?![E|e] )                                 *)
(* for the tags S and E with first characters s and e, which are put into  *)
(* the pattern as they are.  Of the characters that are special in a       *)
(* regular expression, a tag of the model holds only the dot (anywhere),   *)
(* and a quantifier or a parenthesis as its one character; it holds no     *)
(* character that is special in a character class, so the two classes hold *)
(* the characters of the tag and the vertical bar.                         *)
(***************************************************************************)
DEFAULT_START_TAG == <<"{">>
DEFAULT_END_TAG == <<"}">>

\* [A-Za-z0-9-_]
NameChars ==
  {"A", "B", "C", "D", "E", "F", "G", "H", "I", "J", "K", "L", "M", "N", "O",
   "P", "Q", "R", "S", "T", "U", "V", "W", "X", "Y", "Z",
   "a", "b", "c", "d", "e", "f", "g", "h", "i", "j", "k", "l", "m", "n", "o",
   "p", "q", "r", "s", "t", "u", "v", "w", "x", "y", "z",
   "0", "1", "2", "3", "4", "5", "6", "7", "8", "9", "-", "_"}

\* the class [T|t] of a tag T
TagClass(tag) == {tag[i] : i \in 1..Len(tag)} \cup {"|"}

\* a quantifier, which needs a term before it to repeat
Quantifiers == {"*", "+", "?"}

\* the SyntaxError new RegExp throws
SyntaxError ==
  [kind |-> "error", name |-> "SyntaxError", str |-> <<>>, list |-> <<>>,
   template |-> <<>>]

\* the pattern of the tags start and end is no regular expression: a
\* quantifier follows the lookbehind or the lazy quantifier of the name
\* (nothing to repeat), or a parenthesis has no partner; "(" with ")" makes a
\* group of the name and is a regular expression
IsInvalidPattern(start, end) ==
  \/ \E k \in {1} \cap DOMAIN start : start[k] \in Quantifiers
  \/ \E k \in {1} \cap DOMAIN end : end[k] \in Quantifiers
  \/ (start = <<"(">>) # (end = <<")">>)
  \/ start = <<")">>
  \/ end = <<"(">>

getPlaceholderPattern(start, end) ==
  IF IsInvalidPattern(start, end) THEN SyntaxError
  ELSE [start |-> start, end |-> end, lastIndex |-> 0]

\* the character c matches the character t of a tag in the pattern: the dot
\* matches every character but a line terminator, another character itself
CharMatches(t, c) == IF t = "." THEN c # "\n" ELSE c = t

\* the tag, as a part of the pattern, matches value at index i
TagMatchesAt(value, tag, i) ==
  /\ i >= 0
  /\ i + Len(tag) <= Len(value)
  /\ \A k \in 1..Len(tag) : CharMatches(tag[k], value[i + k])

\* the lengths n of the names with which the pattern matches value at index i:
\* the lookbehind, the start tag, n name characters, the end tag, the
\* lookahead
NameLengths(value, pattern, i) ==
  LET p == i + Len(pattern.start)
  IN  {n \in 1..(Len(value) - p) :
         /\ (i = 0 \/ value[i] \notin TagClass(pattern.start))
         /\ TagMatchesAt(value, pattern.start, i)
         /\ \A k \in 1..n : value[p + k] \in NameChars
         /\ TagMatchesAt(value, pattern.end, p + n)
         /\ LET q == p + n + Len(pattern.end)
            IN  ~(q + 2 <= Len(value)
                  /\ value[q + 1] \in TagClass(pattern.end)
                  /\ value[q + 2] = " ")}

\* the length of the match at index i (the lazy quantifier takes the shortest
\* name), 0 when the pattern does not match there
MatchLength(value, pattern, i) ==
  LET ns == NameLengths(value, pattern, i)
  IN  IF ns = {} THEN 0
      ELSE Len(pattern.start) + Len(pattern.end)
             + (CHOOSE n \in ns : \A m \in ns : n <= m)

\* value.matchAll(pattern), as the list of the matched texts: the matches are
\* searched left to right from lastIndex, each after the end of the last
RECURSIVE MatchAllFrom(_, _, _)
MatchAllFrom(value, pattern, i) ==
  IF i >= Len(value) THEN <<>>
  ELSE LET m == MatchLength(value, pattern, i)
       IN  IF m > 0
           THEN <<SubSeq(value, i + 1, i + m)>>
                  \o MatchAllFrom(value, pattern, i + m)
           ELSE MatchAllFrom(value, pattern, i + 1)

\* the indices of the matches of value.matchAll(pattern) (the index of each
\* match), searched as in MatchAllFrom
RECURSIVE MatchIndicesFrom(_, _, _)
MatchIndicesFrom(value, pattern, i) ==
  IF i >= Len(value) THEN {}
  ELSE LET m == MatchLength(value, pattern, i)
       IN  IF m > 0
           THEN {i} \cup MatchIndicesFrom(value, pattern, i + m)
           ELSE MatchIndicesFrom(value, pattern, i + 1)

(***************************************************************************)
(* The Template class.  A Template is the record of its fields;            *)
(* placeholdersMap is the list of its entries [key, value] in the order    *)
(* of its keys, replacements a function from property names to values.     *)
(***************************************************************************)
\* matchAll with the pattern itself as the matcher, read once: the pattern is
\* left with the lastIndex of the end of its first match, 0 when there is none
matchAll_AdvancesThePattern(value, pattern) ==
  LET matches == MatchAllFrom(value, pattern, pattern.lastIndex)
      first == CHOOSE i \in pattern.lastIndex..Len(value) :
                 /\ MatchLength(value, pattern, i) > 0
                 /\ \A j \in pattern.lastIndex..(i - 1) :
                      MatchLength(value, pattern, j) = 0
  IN  [matches |-> matches,
       pattern |-> [pattern EXCEPT !.lastIndex =
                      IF matches = <<>> THEN 0
                      ELSE first + MatchLength(value, pattern, first)]]

\* value.matchAll(pattern): RegExp.prototype[Symbol.matchAll] constructs a
\* matcher of its own from the pattern, gives it the lastIndex of the pattern
\* and advances the matcher; matches is the list of the matched texts, pattern
\* the pattern as the call leaves it
matchAll(value, pattern) ==
  LET matcher == getPlaceholderPattern(pattern.start, pattern.end)
  IN  [matches |-> MatchAllFrom(value, matcher, pattern.lastIndex),
       pattern |-> pattern]

getRemainingPlaceholders(this, value) == matchAll(value, this.pattern).matches

\* the template after this.getRemainingPlaceholders(value)
thisAfterGetRemainingPlaceholders(this, value) ==
  [this EXCEPT !.pattern = matchAll(value, this.pattern).pattern]

\* this.#getPlaceholders(), on the fields source and pattern
getPlaceholders(this) == getRemainingPlaceholders(this, this.source)

\* the keys of a list of entries
Keys(entries) == {entries[i].key : i \in 1..Len(entries)}

\* this.#getPlaceholdersMap(): Object.defineProperty for each placeholder in
\* turn; defining a key again with the value it has changes nothing
RECURSIVE PlaceholdersMapFrom(_, _, _, _)
PlaceholdersMapFrom(placeholders, startTag, endTag, mapping) ==
  IF placeholders = <<>> THEN mapping
  ELSE LET placeholder == Head(placeholders)
           entry == [key |-> placeholder,
                     value |-> unwrap(placeholder, startTag, endTag)]
       IN  PlaceholdersMapFrom(Tail(placeholders), startTag, endTag,
             IF placeholder \in Keys(mapping) THEN mapping
             ELSE Append(mapping, entry))

getPlaceholdersMap(placeholders, startTag, endTag) ==
  PlaceholdersMapFrom(placeholders, startTag, endTag, <<>>)

\* this.#getInitialReplacements(defaults)
getInitialReplacements(placeholdersMap, defaults) ==
  [property \in {placeholdersMap[i].value : i \in 1..Len(placeholdersMap)} |->
     LET value == GetProperty(defaults, property)
     IN  IF isUndefined(value) THEN Null ELSE value]

\* tags?.[i]: tags is the list of what tags[0], tags[1], ... are (an array,
\* a string indexed by character, or the empty list for undefined); the
\* empty string stands for undefined too, both being falsy
TagAt(tags, i) == IF i + 1 <= Len(tags) THEN tags[i + 1] ELSE <<>>

\* a string seen as a list of its characters
Chars(s) == [i \in 1..Len(s) |-> <<s[i]>>]

\* new Template(source, tags, defaults = {}); the error getPlaceholderPattern
\* throws is thrown on
\* the constructor with tags?.[i] ?? DEFAULT in place of tags?.[i] || DEFAULT:
\* only a missing tag is replaced by the default, an empty one is kept
Template_KeepsAnEmptyTag(source, tags, defaultsArg) ==
  LET defaults == IF defaultsArg = NoArgument THEN EmptyObject ELSE defaultsArg
      startTag == IF 1 <= Len(tags) THEN tags[1] ELSE DEFAULT_START_TAG
      endTag == IF 2 <= Len(tags) THEN tags[2] ELSE DEFAULT_END_TAG
      pattern == getPlaceholderPattern(startTag, endTag)
      placeholders == getPlaceholders([source |-> source, pattern |-> pattern])
      placeholdersMap == getPlaceholdersMap(placeholders, startTag, endTag)
  IN  IF pattern = SyntaxError THEN SyntaxError
      ELSE [source |-> source,
            startTag |-> startTag,
            endTag |-> endTag,
            pattern |-> pattern,
            placeholders |-> placeholders,
            placeholdersMap |-> placeholdersMap,
            replacements |-> getInitialReplacements(placeholdersMap, defaults)]

Template(source, tags, defaultsArg) ==
  LET defaults == IF defaultsArg = NoArgument THEN EmptyObject ELSE defaultsArg
      startTag == IF TagAt(tags, 0) # <<>> THEN TagAt(tags, 0)
                  ELSE DEFAULT_START_TAG
      endTag == IF TagAt(tags, 1) # <<>> THEN TagAt(tags, 1)
                ELSE DEFAULT_END_TAG
      pattern == getPlaceholderPattern(startTag, endTag)
      placeholders == getPlaceholders([source |-> source, pattern |-> pattern])
      placeholdersMap == getPlaceholdersMap(placeholders, startTag, endTag)
  IN  IF pattern = SyntaxError THEN SyntaxError
      ELSE [source |-> source,
            startTag |-> startTag,
            endTag |-> endTag,
            pattern |-> pattern,
            placeholders |-> placeholders,
            placeholdersMap |-> placeholdersMap,
            replacements |-> getInitialReplacements(placeholdersMap, defaults)]

\* Template.create(source, tags, defaults)
create(source, tags, defaults) == Template(source, tags, defaults)

\* ResolvedValue with the override taken only when it is truthy, the default
\* otherwise (replacements[prop] || this.replacements[prop])
ResolvedValue_Or(this, replacements, prop) ==
  IF GetProperty(replacements, prop) \in
       {Undefined, Null, Zero, False, Str(<<>>)}
  THEN GetProperty(Obj(this.replacements), prop)
  ELSE GetProperty(replacements, prop)

\* ResolvedValue with a defined override converted to a string at once
ResolvedValue_StringifiesOverride(this, replacements, prop) ==
  IF isDefined(GetProperty(replacements, prop))
  THEN Str(ToStr(GetProperty(replacements, prop)))
  ELSE GetProperty(Obj(this.replacements), prop)

\* the value render resolves for the property prop (lines 352-356)
ResolvedValue(this, replacements, prop) ==
  IF isDefined(GetProperty(replacements, prop))
  THEN GetProperty(replacements, prop)
  ELSE GetProperty(Obj(this.replacements), prop)

\* the values render resolves, in the order of the entries of placeholdersMap
ResolvedValues(this, replacements) ==
  [i \in 1..Len(this.placeholdersMap) |->
     ResolvedValue(this, replacements, this.placeholdersMap[i].value)]

\* lines 358-360: a symbol becomes the text of value.toString() without the
\* first "Symbol(" and the first ")"
SymbolToString(value) ==
  IF value.t = "symbol"
  THEN Str(Replace(Replace(ToStr(value), <<"S", "y", "m", "b", "o", "l", "(">>,
                           <<>>),
                   <<")">>, <<>>))
  ELSE value

\* the loop of render over the entries of placeholdersMap
RECURSIVE RenderFrom(_, _, _, _)
RenderFrom(this, replacements, entries, result) ==
  IF entries = <<>> THEN result
  ELSE LET placeholder == Head(entries).key
           prop == Head(entries).value
           value == SymbolToString(ResolvedValue(this, replacements, prop))
       IN  RenderFrom(this, replacements, Tail(entries),
             IF isNonNullable(value)
             THEN ReplaceAll(result, placeholder, ToStr(value))
             ELSE result)

\* what a call returns: a string, a list or nothing, or the error it throws
\* with its cause
Returned(str) ==
  [kind |-> "string", str |-> str, list |-> <<>>, template |-> <<>>]
ReturnedList(list) ==
  [kind |-> "list", str |-> <<>>, list |-> list, template |-> <<>>]
ReturnedNothing ==
  [kind |-> "undefined", str |-> <<>>, list |-> <<>>, template |-> <<>>]
ReturnedBoolean(b) ==
  [kind |-> IF b THEN "true" ELSE "false", str |-> <<>>, list |-> <<>>,
   template |-> <<>>]
Thrown(template, missingReplacements) ==
  [kind |-> "error", str |-> <<>>, list |-> missingReplacements,
   template |-> template]

\* this.valueOf(): String.prototype.toString.call(this), the string the
\* constructor gave to super, which is the source
valueOf(this) == this.source

\* toString as String.prototype has it, with no override in the class
toString_ReturnsTheSource(this) == this.source

\* this.toString(): render() with no argument
toString(this) == RenderFrom(this, EmptyObject, this.placeholdersMap, this.source)

\* the string a template is coerced to: with the hint "string" (String(t), a
\* template literal) toString is called first, with the hint "default"
\* (t + "", t == s) valueOf; each returns a string
ToPrimitive(this, hint) ==
  IF hint = "string" THEN toString(this) ELSE valueOf(this)

\* validate with the source of the template, not its string form, as the
\* template of the error
validate_TemplateIsSource(this, value) ==
  LET remainingPlaceholders == getRemainingPlaceholders(this, value)
  IN  IF Len(remainingPlaceholders) > 0
      THEN Thrown(this.source, remainingPlaceholders)
      ELSE ReturnedNothing

\* this.validate(value)
validate(this, value) ==
  LET remainingPlaceholders == getRemainingPlaceholders(this, value)
  IN  IF Len(remainingPlaceholders) > 0
      THEN Thrown(toString(this), remainingPlaceholders)
      ELSE ReturnedNothing

\* this.render(replacements = {}, validate = false)
render(this, replacementsArg, validateArg) ==
  LET replacements == IF replacementsArg = NoArgument THEN EmptyObject
                      ELSE replacementsArg
      result == RenderFrom(this, replacements, this.placeholdersMap,
                           this.source)
  IN  IF validateArg /\ validate(this, result).kind = "error"
      THEN validate(this, result)
      ELSE Returned(result)

\* the template after this.validate(value), which changes it only through
\* getRemainingPlaceholders (the toString of the error message is a render
\* without validation)
thisAfterValidate(this, value) == thisAfterGetRemainingPlaceholders(this, value)

\* the template after this.render(replacements, validate)
thisAfterRender(this, replacementsArg, validateArg) ==
  IF validateArg
  THEN thisAfterValidate(this, render(this, replacementsArg, FALSE).str)
  ELSE this

\* x is an error thrown, not a value returned
IsThrown(x) == "kind" \in DOMAIN x /\ x.kind = "error"

\* fromTemplate building the new template from the source of the template,
\* not from what render returns
fromTemplate_SkipsRender(template, replacements) ==
  Template(template.source, Chars(template.startTag), StrObj(template.endTag))

\* Template.fromTemplate(template, replacements): the constructor is called
\* with the start tag as its tags and the end tag as its defaults; an error
\* render throws is thrown on
fromTemplate(template, replacements) ==
  LET source == render(template, replacements, FALSE)
  IN  IF IsThrown(source) THEN source
      ELSE Template(source.str, Chars(template.startTag),
                    StrObj(template.endTag))

\* this.fork(replacements)
fork(this, replacements) == fromTemplate(this, replacements)

(***************************************************************************)
(* The inputs of the model.                                                *)
(***************************************************************************)
\* the tags arguments: single-character tags, two-character tags, none
TagsArguments ==
  << << <<"<">>, <<">">> >>, << <<"<", "%">>, <<"%", ">">> >>, <<>> >>

StartOf(tags) == IF TagAt(tags, 0) # <<>> THEN TagAt(tags, 0) ELSE DEFAULT_START_TAG
EndOf(tags) == IF TagAt(tags, 1) # <<>> THEN TagAt(tags, 1) ELSE DEFAULT_END_TAG

\* the property names of the sources
Names == {<<"a">>, <<"b">>}

\* names that a plain object or a string inherits or owns: a source below
\* holds the placeholder of one of them
InheritedNames == {valueOfName, <<"0">>}

\* the pieces the sources are made of, for the tags S and E: the placeholder
\* of each name, each tag alone, a space and a vertical bar
Pieces(S, E) ==
  {wrap(n, S, E) : n \in Names} \cup {S, E, <<" ">>, <<"|">>}

RECURSIVE Concatenations(_, _)
Concatenations(pieces, n) ==
  IF n = 0 THEN {<<>>}
  ELSE LET shorter == Concatenations(pieces, n - 1)
       IN  shorter \cup {s \o p : s \in shorter, p \in pieces}

\* the sources: the concatenations of at most MaxPieces pieces, the
\* placeholder of an inherited name, alone or before the placeholder of a,
\* and the placeholder of a twice after a start tag
Sources(tags) ==
  LET S == StartOf(tags)
      E == EndOf(tags)
  IN  Concatenations(Pieces(S, E), MaxPieces)
        \cup {wrap(n, S, E) \o rest :
                n \in InheritedNames, rest \in {<<>>, wrap(<<"a">>, S, E)}}
        \cup {S \o wrap(<<"a">>, S, E) \o wrap(<<"a">>, S, E)}

\* the defaults arguments: an object giving a a value, none, an object giving
\* valueOf the value null
DefaultsArguments ==
  <<Obj([n \in {<<"a">>} |-> Str(<<"d">>)]), NoArgument,
    Obj([n \in {valueOfName} |-> Null])>>

\* the values of the overrides
OverrideValues ==
  {Null, Str(<<"x">>), Zero, Str(<<"|">>), Str(<<"$", "&">>)}

\* the property names of a template
Properties(this) == {this.placeholdersMap[i].value : i \in 1..Len(this.placeholdersMap)}

\* the objects giving some of the properties of a template a value of vals
OverridesOf(this, vals) ==
  {Obj(f) : f \in UNION {[D -> vals] : D \in SUBSET Properties(this)}}

\* the overrides arguments for a template: objects giving some of its
\* properties a value
OverridesArguments(this) == OverridesOf(this, OverrideValues)

\* the strings validate and getRemainingPlaceholders are called with: the
\* source of the template and what its render returns
Texts(this) ==
  {this.source} \cup
    {render(this, o, FALSE).str : o \in OverridesArguments(this)}

(***************************************************************************)
(* The state: the template in hand (tpl) and that template as its          *)
(* constructor returned it (fresh), and the last call made: the template   *)
(* it was made on as it was before the call (receiver) and as the call     *)
(* left it (after), its name (op), its arguments (overrides,               *)
(* shouldValidate, text; tags and defaults for the constructor), the       *)
(* values render resolved (values) and what the call returned or threw     *)
(* (result).                                                               *)
(***************************************************************************)
VARIABLES tpl, fresh, receiver, after, op, tags, defaults, overrides,
          shouldValidate, text, values, result, forks

vars ==
  <<tpl, fresh, receiver, after, op, tags, defaults, overrides,
    shouldValidate, text, values, result, forks>>

\* the state after new Template(s, t, d), t one of tagsArguments and d one of
\* defaultsArguments
Constructs(tagsArguments, defaultsArguments) ==
  /\ \E i \in 1..Len(tagsArguments), j \in 1..Len(defaultsArguments) :
       \E s \in Sources(tagsArguments[i]) :
         /\ tpl = Template(s, tagsArguments[i], defaultsArguments[j])
         /\ tags = tagsArguments[i]
         /\ defaults = defaultsArguments[j]
  /\ fresh = tpl
  /\ receiver = tpl
  /\ after = tpl
  /\ op = "new"
  /\ overrides = NoArgument
  /\ shouldValidate = FALSE
  /\ text = <<>>
  /\ values = <<>>
  /\ result = ReturnedNothing
  /\ forks = 0

Init == Constructs(TagsArguments, DefaultsArguments)

\* no call is under way: the template was constructed or forked, or the
\* caller is done with the last call
Idle == op \in {"new", "fork", "none"}

\* tpl.render(o, v), o one of os
RenderOneOf(os) ==
  \E o \in os, v \in BOOLEAN :
    /\ Idle
    /\ receiver' = tpl
    /\ op' = "render"
    /\ overrides' = o
    /\ shouldValidate' = v
    /\ values' = ResolvedValues(tpl, o)
    /\ result' = render(tpl, o, v)
    /\ after' = thisAfterRender(tpl, o, v)
    /\ tpl' = after'
    /\ text' = <<>>
    /\ tags' = <<>>
    /\ defaults' = NoArgument
    /\ UNCHANGED <<fresh, forks>>

\* tpl.render(o, v)
Render == RenderOneOf(OverridesArguments(tpl))

\* tpl.validate(s)
Validate ==
  \E s \in Texts(tpl) :
    /\ Idle
    /\ receiver' = tpl
    /\ op' = "validate"
    /\ text' = s
    /\ result' = validate(tpl, s)
    /\ after' = thisAfterValidate(tpl, s)
    /\ tpl' = after'
    /\ overrides' = NoArgument
    /\ shouldValidate' = FALSE
    /\ values' = <<>>
    /\ tags' = <<>>
    /\ defaults' = NoArgument
    /\ UNCHANGED <<fresh, forks>>

\* tpl.getRemainingPlaceholders(s)
GetRemainingPlaceholders ==
  \E s \in Texts(tpl) :
    /\ Idle
    /\ receiver' = tpl
    /\ op' = "getRemainingPlaceholders"
    /\ text' = s
    /\ result' = ReturnedList(getRemainingPlaceholders(tpl, s))
    /\ after' = thisAfterGetRemainingPlaceholders(tpl, s)
    /\ tpl' = after'
    /\ overrides' = NoArgument
    /\ shouldValidate' = FALSE
    /\ values' = <<>>
    /\ tags' = <<>>
    /\ defaults' = NoArgument
    /\ UNCHANGED <<fresh, forks>>

\* tpl.toString()
ToStringCall ==
  /\ Idle
  /\ receiver' = tpl
  /\ op' = "toString"
  /\ result' = Returned(toString(tpl))
  /\ after' = thisAfterRender(tpl, NoArgument, FALSE)
  /\ tpl' = after'
  /\ overrides' = NoArgument
  /\ shouldValidate' = FALSE
  /\ text' = <<>>
  /\ values' = <<>>
  /\ tags' = <<>>
  /\ defaults' = NoArgument
  /\ UNCHANGED <<fresh, forks>>

\* tpl = tpl.fork(o), o one of os
ForkOneOf(os) ==
  \E o \in os :
    /\ Idle
    /\ forks < MaxForks
    /\ forks' = forks + 1
    /\ receiver' = tpl
    /\ op' = "fork"
    /\ overrides' = o
    /\ shouldValidate' = FALSE
    /\ values' = ResolvedValues(tpl, o)
    /\ text' = <<>>
    /\ tags' = <<>>
    /\ defaults' = NoArgument
    /\ after' = thisAfterRender(tpl, o, FALSE)
    /\ LET forked == fork(tpl, o)
       IN  IF IsThrown(forked)
           THEN result' = forked /\ tpl' = after' /\ fresh' = fresh
           ELSE result' = ReturnedNothing /\ tpl' = forked /\ fresh' = forked

\* tpl = tpl.fork(o)
Fork == ForkOneOf(OverridesArguments(tpl))

\* String(tpl) and tpl + "": the coercion of the template to a string
Coerce ==
  \E hint \in {"string", "default"} :
    /\ Idle
    /\ receiver' = tpl
    /\ op' = (IF hint = "string" THEN "String" ELSE "concat")
    /\ result' = Returned(ToPrimitive(tpl, hint))
    /\ after' = thisAfterRender(tpl, NoArgument, FALSE)
    /\ tpl' = after'
    /\ overrides' = NoArgument
    /\ shouldValidate' = FALSE
    /\ text' = <<>>
    /\ values' = <<>>
    /\ tags' = <<>>
    /\ defaults' = NoArgument
    /\ UNCHANGED <<fresh, forks>>

\* the values the predicates of lib/is.js are called with: one of each type
\* typeof tells apart, and null
PredicateArguments ==
  {Str(<<"x">>), False, Zero, Sym(<<"s">>), OneN, Undefined, Null,
   PlainObject, Fn(valueOfName)}

\* isPrimitive(v)
IsPrimitive ==
  \E v \in PredicateArguments :
    /\ Idle
    /\ receiver' = tpl
    /\ after' = tpl
    /\ op' = "isPrimitive"
    /\ values' = <<v>>
    /\ result' = ReturnedBoolean(isPrimitive(v))
    /\ overrides' = NoArgument
    /\ shouldValidate' = FALSE
    /\ text' = <<>>
    /\ tags' = <<>>
    /\ defaults' = NoArgument
    /\ UNCHANGED <<tpl, fresh, forks>>

\* the caller is done with what the last call returned or threw, and goes on
\* with the template as the call left it
Continue ==
  /\ ~Idle
  /\ op' = "none"
  /\ receiver' = tpl
  /\ after' = tpl
  /\ overrides' = NoArgument
  /\ shouldValidate' = FALSE
  /\ text' = <<>>
  /\ values' = <<>>
  /\ result' = ReturnedNothing
  /\ tags' = <<>>
  /\ defaults' = NoArgument
  /\ UNCHANGED <<tpl, fresh, forks>>

Next ==
  \/ Render
  \/ Fork
  \/ Validate
  \/ GetRemainingPlaceholders
  \/ ToStringCall
  \/ Coerce
  \/ Continue

Spec == Init /\ [][Next]_vars

(***************************************************************************)
(* The calls whose outcome hangs on the text of the values and of the      *)
(* tags: templates constructed with a tag that is empty or missing,        *)
(* rendered and forked with values that hold a token, a replacement        *)
(* pattern or the description of a symbol; and the predicate isPrimitive.  *)
(***************************************************************************)
\* the tags arguments: none, an empty start tag, a start tag and no end tag
ValueTagsArguments ==
  << <<>>, << <<>>, <<">">> >>, << <<"<">> >> >>

\* the defaults arguments: none, an object giving a a value
ValueDefaultsArguments ==
  <<NoArgument, Obj([n \in {<<"a">>} |-> Str(<<"d">>)])>>

\* the values of the overrides: a name character, a replacement pattern, the
\* placeholder of b with the default tags, the symbol Symbol(")s")
TextValues ==
  {Str(<<"x">>), Str(<<"$", "&">>), Str(<<"{", "b", "}">>),
   Sym(<<")", "s">>)}

ValuesInit == Constructs(ValueTagsArguments, ValueDefaultsArguments)

\* tpl.render(o, v) with the values above
RenderValues == RenderOneOf(OverridesOf(tpl, TextValues))

\* tpl = tpl.fork(o) with the values above
ForkValues == ForkOneOf(OverridesOf(tpl, TextValues))

ValuesNext ==
  \/ RenderValues
  \/ ForkValues
  \/ IsPrimitive
  \/ Continue

SpecValues == ValuesInit /\ [][ValuesNext]_vars

(***************************************************************************)
(* The functions on strings and the constructor, each applied to inputs    *)
(* drawn from a bounded set: a string (text), a pair of tags and a         *)
(* defaults argument.                                                      *)
(***************************************************************************)
\* the tags arguments: none, the same character twice, the dot, a
\* quantifier, an opening parenthesis with no partner, two characters that
\* names may hold
StringTagsArguments ==
  << <<>>,
     << <<"#">>, <<"#">> >>,
     << <<".">>, <<".">> >>,
     << <<"*">>, <<"*">> >>,
     << <<"(">>, <<">">> >>,
     << <<"_">>, <<"-">> >> >>

\* the pieces the strings are made of, for the tags S and E: the placeholder
\* of each name, a name alone, each tag alone, a space, a newline and a
\* vertical bar
StringPieces(S, E) ==
  {wrap(n, S, E) : n \in Names}
    \cup {<<"a">>, S, E, <<" ">>, <<"\n">>, <<"|">>}

\* the strings: the concatenations of at most MaxParts pieces, and the
\* placeholder of the name toString
Strings(tagsArg) ==
  LET S == StartOf(tagsArg)
      E == EndOf(tagsArg)
  IN  Concatenations(StringPieces(S, E), MaxParts)
        \cup {wrap(toStringName, S, E)}

\* the defaults arguments: none, and an object giving a a value and b the
\* value undefined
StringDefaultsArguments ==
  {NoArgument,
   Obj([n \in Names |-> IF n = <<"a">> THEN Str(<<"d">>) ELSE Undefined])}

\* no template has been constructed
NoTemplate == [kind |-> "undefined"]

StringsInit ==
  /\ \E i \in 1..Len(StringTagsArguments), d \in StringDefaultsArguments :
       \E s \in Strings(StringTagsArguments[i]) :
         /\ text = s
         /\ tags = StringTagsArguments[i]
         /\ defaults = d
  /\ op = "none"
  /\ tpl = NoTemplate
  /\ fresh = NoTemplate
  /\ receiver = NoTemplate
  /\ after = NoTemplate
  /\ overrides = NoArgument
  /\ shouldValidate = FALSE
  /\ values = <<>>
  /\ result = ReturnedNothing
  /\ forks = 0

\* tpl = Template.create(text, tags, defaults)
New ==
  /\ op = "none"
  /\ op' = "new"
  /\ LET made == create(text, tags, defaults)
     IN  IF IsThrown(made)
         THEN result' = made /\ tpl' = tpl /\ fresh' = fresh
         ELSE result' = ReturnedNothing /\ tpl' = made /\ fresh' = made
  /\ UNCHANGED <<receiver, after, tags, defaults, overrides, shouldValidate,
                 text, values, forks>>

\* clean(text)
Clean ==
  /\ op = "none"
  /\ op' = "clean"
  /\ result' = Returned(clean(text))
  /\ UNCHANGED <<tpl, fresh, receiver, after, tags, defaults, overrides,
                 shouldValidate, text, values, forks>>

\* wrap(text, start, end), start and end the tags
Wrap ==
  /\ op = "none"
  /\ op' = "wrap"
  /\ result' = Returned(wrap(text, StartOf(tags), EndOf(tags)))
  /\ UNCHANGED <<tpl, fresh, receiver, after, tags, defaults, overrides,
                 shouldValidate, text, values, forks>>

\* unwrap(w, start, end), w what wrap has returned
Unwrap ==
  /\ op = "wrap"
  /\ op' = "unwrap"
  /\ result' = Returned(unwrap(result.str, StartOf(tags), EndOf(tags)))
  /\ UNCHANGED <<tpl, fresh, receiver, after, tags, defaults, overrides,
                 shouldValidate, text, values, forks>>

StringsNext == New \/ Clean \/ Wrap \/ Unwrap

SpecStrings == StringsInit /\ [][StringsNext]_vars

(***************************************************************************)
(* Properties.                                                             *)
(***************************************************************************)
HasDefaultTags(this) ==
  this.startTag = DEFAULT_START_TAG /\ this.endTag = DEFAULT_END_TAG

\* the elements of a list
Range(list) == {list[i] : i \in 1..Len(list)}

\* the own property name of an overrides object has a value that is defined
HasOverride(o, name) == name \in DOMAIN o.own /\ o.own[name] # Undefined

\* C1: the placeholders of a constructed template hold every token the scan
\* of the source finds, each exactly once (no token at two positions of the
\* list), in the order of first occurrence.
C1_PlaceholdersHoldEachTokenOnce ==
  LET found == MatchAllFrom(tpl.source, tpl.pattern, 0)
  IN  /\ Range(tpl.placeholders) = Range(found)
      /\ \A i, j \in 1..Len(tpl.placeholders) :
           i # j => tpl.placeholders[i] # tpl.placeholders[j]
      /\ \A i, j \in 1..Len(tpl.placeholders) :
           i < j =>
             \E m \in 1..Len(found) :
               /\ found[m] = tpl.placeholders[i]
               /\ \A n \in 1..m : found[n] # tpl.placeholders[j]

\* C2: a fork has the start tag and the end tag of the template it was forked
\* from.
C2_ForkKeepsTags ==
  op = "fork" =>
    tpl.startTag = receiver.startTag /\ tpl.endTag = receiver.endTag

\* C3: for a template with the default tags, fork throws nothing and returns
\* a template whose source is what render returns for the same overrides
\* without validation, and whose placeholders are those found in that string
\* by the pattern of the forked template.
C3_ForkIsRenderThenNew ==
  (op = "fork" /\ HasDefaultTags(receiver)) =>
    /\ result.kind # "error"
    /\ tpl.source = render(receiver, overrides, FALSE).str
    /\ tpl.placeholders =
         getRemainingPlaceholders(receiver, render(receiver, overrides, FALSE).str)

\* C3 witness: the template "{a}{b}" forked with a = "x" gives the source
\* "x{b}" with the one placeholder "{b}".
C3_Witness ==
  /\ op = "fork"
  /\ receiver.source = <<"{", "a", "}", "{", "b", "}">>
  /\ HasDefaultTags(receiver)
  /\ overrides = Obj([n \in {<<"a">>} |-> Str(<<"x">>)])
  /\ tpl.source = <<"x", "{", "b", "}">>
  /\ tpl.placeholders = << <<"{", "b", "}">> >>

\* the characters of the tags of a template
DelimiterCharacters(this) == Range(this.startTag) \cup Range(this.endTag)

\* C4: when no value of the overrides holds a delimiter character, a
\* placeholder whose override is absent or null is a placeholder of the fork,
\* and a placeholder whose override is a non-null value is not.
C4_ForkKeepsExactlyTheUntouched ==
  (/\ op = "fork"
   /\ \A n \in DOMAIN overrides.own :
        Range(ToStr(overrides.own[n])) \cap DelimiterCharacters(receiver) = {}) =>
    \A i \in 1..Len(receiver.placeholdersMap) :
      LET token == receiver.placeholdersMap[i].key
          name == receiver.placeholdersMap[i].value
      IN  IF HasOverride(overrides, name) /\ overrides.own[name] # Null
          THEN token \notin Range(tpl.placeholders)
          ELSE token \in Range(tpl.placeholders)

\* C5: every entry of the replacements of a fork is null.
C5_ForkHasNoDefaults ==
  op = "fork" => \A n \in DOMAIN tpl.replacements : tpl.replacements[n] = Null

\* C6: render uses, for each placeholder, the override of its property
\* whenever the override is defined, the falsy values 0, false and the empty
\* string included; a value that is not the override is the stored default,
\* used only when the override is undefined.
C6_OverrideUsedWheneverDefined ==
  op = "render" =>
    \A i \in 1..Len(receiver.placeholdersMap) :
      LET name == receiver.placeholdersMap[i].value
      IN  /\ HasOverride(overrides, name) => values[i] = overrides.own[name]
          /\ values[i] # GetProperty(overrides, name) =>
               /\ ~HasOverride(overrides, name)
               /\ values[i] = receiver.replacements[name]

\* C6 witness: "{a}" with the default "d" for a, rendered with a = 0, gives
\* "0".
C6_Witness ==
  /\ op = "render"
  /\ receiver.source = <<"{", "a", "}">>
  /\ receiver.replacements[<<"a">>] = Str(<<"d">>)
  /\ overrides = Obj([n \in {<<"a">>} |-> Zero])
  /\ values = <<Zero>>
  /\ result = Returned(<<"0">>)

\* C7: render with the one override k = null returns what render with no
\* override returns, whether or not the template has a default for k.
C7_NullOverrideLikeNoOverride ==
  \A k \in Properties(receiver) :
    (op = "render" /\ overrides = Obj([n \in {k} |-> Null])) =>
      result = render(receiver, EmptyObject, shouldValidate)

\* C7 as amended: render with the one override k = null returns what render
\* with no override returns when that call resolves no non-null value for k:
\* the stored default of k is null and the empty overrides object has no
\* property k.
C7_NullOverrideLikeNoOverrideWhenNothingResolves ==
  \A k \in Properties(receiver) :
    (/\ op = "render"
     /\ overrides = Obj([n \in {k} |-> Null])
     /\ receiver.replacements[k] = Null
     /\ GetProperty(EmptyObject, k) = Undefined) =>
      result = render(receiver, EmptyObject, shouldValidate)

\* C7 witness: "{a}{b}" with the default "d" for a and none for b, rendered
\* with b = null, gives "d{b}".
C7_Witness ==
  /\ op = "render"
  /\ receiver.source = <<"{", "a", "}", "{", "b", "}">>
  /\ receiver.replacements[<<"a">>] = Str(<<"d">>)
  /\ receiver.replacements[<<"b">>] = Null
  /\ overrides = Obj([n \in {<<"b">>} |-> Null])
  /\ result = Returned(<<"d", "{", "b", "}">>)

\* the text a value stands for in a rendered string: the description of a
\* symbol, the string form of any other value
DisplayOf(val) == IF val.t = "symbol" THEN val.v ELSE ToStr(val)

\* the value the override, if defined, or else the stored default gives a
\* property
OverrideOrDefault(this, o, name) ==
  IF HasOverride(o, name) THEN o.own[name] ELSE this.replacements[name]

\* source from index i on, with every occurrence of a placeholder whose value
\* is not null replaced by the string form of the value
RECURSIVE SubstitutedFrom(_, _, _, _)
SubstitutedFrom(source, this, o, i) ==
  IF i >= Len(source) THEN <<>>
  ELSE LET here == {e \in Range(this.placeholdersMap) :
                      /\ OccursAt(source, e.key, i)
                      /\ isNonNullable(OverrideOrDefault(this, o, e.value))}
       IN  IF here = {} THEN <<source[i + 1]>> \o SubstitutedFrom(source, this, o, i + 1)
           ELSE LET e == CHOOSE e \in here : TRUE
                IN  DisplayOf(OverrideOrDefault(this, o, e.value))
                      \o SubstitutedFrom(source, this, o, i + Len(e.key))

\* C8: with the default tags, render returns the source with every
\* occurrence of a placeholder whose value is not null replaced by the string
\* form of the value, and everything else unchanged; render with no override
\* on a template constructed with no defaults returns the source.
C8_RenderSubstitutesAndKeepsTheRest ==
  (op = "render" /\ HasDefaultTags(receiver) /\ result.kind = "string") =>
    /\ result.str = SubstitutedFrom(receiver.source, receiver, overrides, 0)
    /\ (/\ overrides = EmptyObject
        /\ receiver = Template(receiver.source, <<>>, NoArgument)) =>
         result.str = receiver.source

\* C9: render with validation throws whenever some placeholder has no
\* non-null value, whatever the other placeholders are given; render without
\* validation never throws.
C9_ValidationThrowsWhenUnresolved ==
  op = "render" =>
    /\ (shouldValidate /\ \E i \in DOMAIN values : ~isNonNullable(values[i])) =>
         result.kind = "error"
    /\ ~shouldValidate => result.kind = "string"

\* C10: when every placeholder has a non-null value, render with validation
\* throws nothing and returns the rendered string.
C10_NoErrorWhenAllResolved ==
  (/\ op = "render"
   /\ shouldValidate
   /\ \A i \in DOMAIN values : isNonNullable(values[i])) =>
    result = Returned(render(receiver, overrides, FALSE).str)

\* C11: validate(s) throws exactly when getRemainingPlaceholders(s) is not
\* empty; the error carries that list as missingReplacements and the string
\* form of the template (what render returns with no argument) as template;
\* otherwise validate returns nothing and leaves the template as it was.
C11_ValidateThrowsIffPlaceholdersRemain ==
  op = "validate" =>
    LET remaining == getRemainingPlaceholders(receiver, text)
    IN  IF remaining # <<>>
        THEN /\ result.kind = "error"
             /\ result.list = remaining
             /\ result.template = render(receiver, NoArgument, FALSE).str
        ELSE result = ReturnedNothing /\ after = receiver

\* C11 witness: "{a}{b}" with the default "d" for a, validated on its own
\* source, throws with the two tokens in order and the template "d{b}".
C11_Witness ==
  /\ op = "validate"
  /\ receiver.source = <<"{", "a", "}", "{", "b", "}">>
  /\ text = receiver.source
  /\ result = Thrown(<<"d", "{", "b", "}">>,
                     << <<"{", "a", "}">>, <<"{", "b", "}">> >>)

\* C12: no call of render, fork, validate, getRemainingPlaceholders or
\* toString changes the source, the tags, the placeholders, the
\* placeholdersMap or the replacements of the template it is made on; the
\* template in hand is the template its constructor returned, and every
\* render in a sequence of calls, those after a call that threw included,
\* returns or throws what it does on that freshly constructed template.
C12_CallsLeaveTheTemplateAsConstructed ==
  /\ op \notin {"new", "none"} =>
       /\ after.source = receiver.source
       /\ after.startTag = receiver.startTag
       /\ after.endTag = receiver.endTag
       /\ after.placeholders = receiver.placeholders
       /\ after.placeholdersMap = receiver.placeholdersMap
       /\ after.replacements = receiver.replacements
  /\ tpl.source = fresh.source
  /\ tpl.placeholders = fresh.placeholders
  /\ tpl.replacements = fresh.replacements
  /\ op = "render" => result = render(fresh, overrides, shouldValidate)

\* C12 witness: a render with validation has thrown on a template with two
\* placeholders, and the template is as it was.
C12_Witness ==
  /\ op = "render"
  /\ shouldValidate
  /\ result.kind = "error"
  /\ Len(result.list) = 2
  /\ after = receiver
  /\ tpl = fresh

\* a template has been constructed from text, tags and defaults
Constructed == op = "new" /\ result.kind # "error"

\* C13: the placeholders of a template constructed from the source s are
\* what the scan of clean(s) finds: newlines and runs of spaces are collapsed
\* to single spaces before the pattern is matched.
C13_PlaceholdersAreThoseOfTheCleanedSource ==
  Constructed =>
    tpl.placeholders = getRemainingPlaceholders(tpl, clean(text))

\* the string s holds the string sub
Includes(s, sub) == IndexOf(s, sub) >= 0

\* C14: clean(clean(s)) = clean(s), and clean(s) holds no two consecutive
\* spaces and no newline.
C14_CleanIsIdempotent ==
  op = "clean" =>
    /\ clean(result.str) = result.str
    /\ ~Includes(result.str, <<" ", " ">>)
    /\ ~Includes(result.str, <<"\n">>)

\* C14 witness: a newline, a space and a newline are cleaned to one space.
C14_Witness ==
  /\ op = "clean"
  /\ text = <<"\n", " ", "\n">>
  /\ result = Returned(<<" ">>)

\* C15: for a string s that holds neither start nor end, unwrap of
\* wrap(s, start, end) is s, whatever non-empty strings start and end are.
C15_UnwrapUndoesWrap ==
  (/\ op = "unwrap"
   /\ ~Includes(text, StartOf(tags))
   /\ ~Includes(text, EndOf(tags))) =>
    result.str = text

\* C16: every placeholder p of a constructed template is the start tag, then
\* placeholdersMap[p], then the end tag.
C16_TokenIsThePropertyBetweenTheTags ==
  Constructed =>
    \A i \in 1..Len(tpl.placeholdersMap) :
      tpl.placeholdersMap[i].key =
        tpl.startTag \o tpl.placeholdersMap[i].value \o tpl.endTag

\* C17: in a constructed template the keys of placeholdersMap are the tokens
\* of placeholders, the keys of replacements are the values of
\* placeholdersMap, and replacements has one entry for each distinct
\* placeholder.
C17_MapAndReplacementsFollowThePlaceholders ==
  Constructed =>
    /\ Keys(tpl.placeholdersMap) = Range(tpl.placeholders)
    /\ DOMAIN tpl.replacements = Properties(tpl)
    /\ Cardinality(DOMAIN tpl.replacements) =
         Cardinality(Range(tpl.placeholders))

\* the defaults argument d gives the name n a value: n is an own property of
\* d and its value is not undefined
Supplies(d, n) == d.kind = "object" /\ HasOverride(d, n)

\* C18: after construction with the defaults d, replacements[n] is d[n] for
\* every property name n that d gives a value, and null for every other, so
\* for every name when no defaults are passed.
C18_ReplacementsAreTheDefaultsOrNull ==
  Constructed =>
    \A n \in Properties(tpl) :
      tpl.replacements[n] =
        IF Supplies(defaults, n) THEN defaults.own[n] ELSE Null

\* C19: constructing a template throws nothing, whatever the source and the
\* tags; placeholders, placeholdersMap and replacements are empty together.
C19_ConstructionNeverFails ==
  op = "new" =>
    /\ result.kind # "error"
    /\ tpl.placeholders = <<>> =>
         tpl.placeholdersMap = <<>> /\ DOMAIN tpl.replacements = {}

\* the token is the start tag, a non-empty run of name characters and the end
\* tag
IsWellFormed(token, startTag, endTag) ==
  LET n == Len(token) - Len(startTag) - Len(endTag)
  IN  /\ n >= 1
      /\ SubSeq(token, 1, Len(startTag)) = startTag
      /\ SubSeq(token, Len(token) - Len(endTag) + 1, Len(token)) = endTag
      /\ \A k \in 1..n : token[Len(startTag) + k] \in NameChars

\* C20: every token of placeholders, and every token
\* getRemainingPlaceholders returns for the source, is the start tag, a
\* non-empty run of letters, digits, hyphens and underscores, and the end
\* tag; no token holds a space.
C20_TokensAreTagNameTag ==
  Constructed =>
    \A token \in Range(tpl.placeholders)
                \cup Range(getRemainingPlaceholders(tpl, text)) :
      /\ IsWellFormed(token, tpl.startTag, tpl.endTag)
      /\ " " \notin Range(token)

\* the token without the start tag at its beginning and the end tag at its
\* end
InnerName(token, startTag, endTag) ==
  SubSeq(token, Len(startTag) + 1, Len(token) - Len(endTag))

\* C21: no placeholder of a constructed template has an inner name whose
\* first character is the first character of the start tag, or whose last
\* character is the first character of the end tag.
C21_NameNeitherBeginsNorEndsWithATagCharacter ==
  Constructed =>
    \A token \in Range(tpl.placeholders) :
      LET name == InnerName(token, tpl.startTag, tpl.endTag)
      IN  name # <<>> =>
            /\ name[1] # tpl.startTag[1]
            /\ name[Len(name)] # tpl.endTag[1]

\* the candidates of a string for the default tags: the pairs <<i, n>> such
\* that "{", n name characters and "}" occur at index i
Candidates(value) ==
  {c \in (0..Len(value)) \X (1..Len(value)) :
     /\ OccursAt(value, DEFAULT_START_TAG, c[1])
     /\ c[1] + c[2] + 2 <= Len(value)
     /\ \A k \in 1..c[2] : value[c[1] + 1 + k] \in NameChars
     /\ OccursAt(value, DEFAULT_END_TAG, c[1] + 1 + c[2])}

\* C22: with the default tags, an occurrence of "{", a name and "}" in the
\* source is reported as a placeholder exactly when it is not preceded by
\* "{" and not followed by "}" and a space.
C22_ReportedIffNotDoubled ==
  (op = "new" /\ HasDefaultTags(tpl)) =>
    \A c \in Candidates(tpl.source) :
      LET i == c[1]
          q == c[1] + c[2] + 2
      IN  (i \in MatchIndicesFrom(tpl.source, tpl.pattern, 0)) <=>
            /\ ~(i >= 1 /\ tpl.source[i] = "{")
            /\ ~(q + 2 <= Len(tpl.source)
                  /\ tpl.source[q + 1] = "}"
                  /\ tpl.source[q + 2] = " ")

\* C23: toString, and every coercion of a template to a string, returns
\* what render returns with no overrides.
C23_StringFormIsRender ==
  op \in {"toString", "String", "concat"} =>
    result = render(receiver, NoArgument, FALSE)

\* C23 as amended: toString, and the coercion with the hint "string"
\* (String(t), a template literal), return what render returns with no
\* argument; the coercion with the default hint (t + "") calls valueOf and
\* gives the source.
C23_ToStringIsRenderAndValueOfIsSource ==
  /\ op \in {"toString", "String"} =>
       result = render(receiver, NoArgument, FALSE)
  /\ op = "concat" => result = Returned(receiver.source)

\* C23 witness: "{a}{b}" with the default "d" for a is "d{b}" as a string,
\* and a later concatenation gives the source.
C23_Witness ==
  /\ op = "String"
  /\ receiver.source = <<"{", "a", "}", "{", "b", "}">>
  /\ receiver.replacements[<<"a">>] = Str(<<"d">>)
  /\ result = Returned(<<"d", "{", "b", "}">>)
  /\ valueOf(tpl) = receiver.source

\* C24: getRemainingPlaceholders(value) returns the tokens the pattern
\* matches in value, from its beginning and from left to right, whatever
\* calls were made on the template before, and leaves the template as it
\* was.
C24_GetRemainingPlaceholdersIsAPureQuery ==
  op = "getRemainingPlaceholders" =>
    /\ result = ReturnedList(MatchAllFrom(text, fresh.pattern, 0))
    /\ after = receiver
    /\ tpl = fresh

\* C24 witness: the scan of "x{b}" by a template "{a}{b}" returns the one
\* token "{b}".
C24_Witness ==
  /\ op = "getRemainingPlaceholders"
  /\ receiver.source = <<"{", "a", "}", "{", "b", "}">>
  /\ text = <<"x", "{", "b", "}">>
  /\ result = ReturnedList(<< <<"{", "b", "}">> >>)

\* C25: when the value render resolves for a placeholder is a symbol, render
\* substitutes the description of the symbol, whatever the description: the
\* text the symbol is converted to is its description, and a source that is
\* one placeholder renders to the description.
C25_SymbolRendersAsItsDescription ==
  (op = "render" /\ result.kind = "string") =>
    \A i \in DOMAIN values :
      values[i].t = "symbol" =>
        /\ SymbolToString(values[i]) = Str(values[i].v)
        /\ receiver.source = receiver.placeholdersMap[i].key =>
             result.str = values[i].v

\* the types of the primitive scalars
PrimitiveScalarTypes ==
  {"string", "boolean", "number", "symbol", "bigint", "undefined", "null"}

\* C26: isPrimitive(v) is true exactly when v is a string, a boolean, a
\* number, a symbol, a bigint, undefined or null, and false for an object
\* and for a function.
C26_IsPrimitiveIffPrimitiveScalar ==
  op = "isPrimitive" =>
    (result = ReturnedBoolean(TRUE) <=> values[1].t \in PrimitiveScalarTypes)

\* the text render puts for a resolved value, <<>> when it puts none
SubstitutedText(value) ==
  IF isNonNullable(value) THEN ToStr(SymbolToString(value)) ELSE <<>>

\* source from index i on, with the placeholders the scan of the template
\* accepted, and nothing else, replaced by the texts of the resolved values
\* that are not null (resolved lists the values in the order of
\* placeholdersMap)
RECURSIVE SubstitutedAtMatches(_, _, _, _)
SubstitutedAtMatches(source, this, resolved, i) ==
  IF i >= Len(source) THEN <<>>
  ELSE LET m == MatchLength(source, this.pattern, i)
           entries == {k \in 1..Len(this.placeholdersMap) :
                         /\ m > 0
                         /\ i \in MatchIndicesFrom(source, this.pattern, 0)
                         /\ this.placeholdersMap[k].key =
                              SubSeq(source, i + 1, i + m)
                         /\ isNonNullable(resolved[k])}
       IN  IF entries = {}
           THEN <<source[i + 1]>>
                  \o SubstitutedAtMatches(source, this, resolved, i + 1)
           ELSE SubstitutedText(resolved[CHOOSE k \in entries : TRUE])
                  \o SubstitutedAtMatches(source, this, resolved, i + m)

\* the text render puts for the value holds no character of a tag and no "$"
IsPlainText(this, value) ==
  Range(SubstitutedText(value)) \cap (DelimiterCharacters(this) \cup {"$"}) = {}

\* C27: render changes only the text at the positions the scan accepted as
\* placeholders: when the texts of the values hold no tag character and no
\* "$", what render returns is the source with the accepted placeholders of
\* non-null value replaced, and an occurrence of a token that the scan
\* excluded is as it was.
C27_RenderTouchesOnlyAcceptedPlaceholders ==
  (/\ op = "render"
   /\ result.kind = "string"
   /\ \A i \in DOMAIN values : IsPlainText(receiver, values[i])) =>
    result.str = SubstitutedAtMatches(receiver.source, receiver, values, 0)

\* every occurrence of a token of the template in its source is one the scan
\* accepted
OccurrencesAreAccepted(this) ==
  \A k \in 1..Len(this.placeholdersMap), i \in 0..(Len(this.source) - 1) :
    OccursAt(this.source, this.placeholdersMap[k].key, i) =>
      i \in MatchIndicesFrom(this.source, this.pattern, 0)

\* C28: the text render substitutes is in the output as it is, as in a
\* simultaneous substitution: where every occurrence of a token is an
\* accepted placeholder, what render returns is the source with each
\* placeholder of non-null value replaced by the text of its value, a token
\* or a "$" sequence inside a value being left as it is.
C28_SubstitutionIsSimultaneousAndVerbatim ==
  (op = "render" /\ result.kind = "string"
     /\ OccurrencesAreAccepted(receiver)) =>
    result.str = SubstitutedAtMatches(receiver.source, receiver, values, 0)

\* C29: a fork introduces no placeholder: the placeholders of t.fork(o) are
\* among the placeholders of t.
C29_ForkIntroducesNoPlaceholder ==
  (op = "fork" /\ result.kind # "error") =>
    Range(tpl.placeholders) \subseteq Range(receiver.placeholders)

\* C30: the start tag and the end tag of every template, constructed or
\* reached through forks, are not empty: the constructor takes the default
\* "{" or "}" for a tag that is missing or empty.
C30_TagsAreNeverEmpty ==
  /\ Len(tpl.startTag) >= 1
  /\ Len(tpl.endTag) >= 1
  /\ op = "new" =>
       /\ TagAt(tags, 0) = <<>> => tpl.startTag = DEFAULT_START_TAG
       /\ TagAt(tags, 1) = <<>> => tpl.endTag = DEFAULT_END_TAG
       /\ TagAt(tags, 0) # <<>> => tpl.startTag = TagAt(tags, 0)
       /\ TagAt(tags, 1) # <<>> => tpl.endTag = TagAt(tags, 1)

\* C30 witness: a template constructed with the tags "" and ">" has the
\* tags "{" and ">", and its fork the tags "{" and "}".
C30_Witness ==
  /\ op = "fork"
  /\ result.kind # "error"
  /\ receiver = Template(receiver.source, << <<>>, <<">">> >>, NoArgument)
  /\ receiver.startTag = <<"{">>
  /\ receiver.endTag = <<">">>
  /\ tpl.startTag = <<"{">>
  /\ tpl.endTag = <<"}">>

====
